---- MODULE Spec2Model ----
(***************************************************************************)
(* Model of the rating session of streamlit.py: the sample loader, the     *)
(* randomised presentation order, the navigation handlers of               *)
(* evaluation_interface and the result writer show_completion.             *)
(*                                                                         *)
(* One action is one event of the Streamlit session: the event, the script *)
(* run (main) that handles it and, when the handler ends in st.rerun(),    *)
(* the script run that follows.  Strings that the program builds or takes  *)
(* apart are sequences of one-character strings.                           *)
(***************************************************************************)
EXTENDS Integers, Sequences, FiniteSets, TLC

\* ------------------------------------------------------------- bounds
\* Slider adjustments a rater makes in one session.
MaxMoves == 2
\* Clock readings are 0..MaxClock, in ticks; TicksPerSecond ticks make one
\* second, the resolution of the record name.
MaxClock == 2
TicksPerSecond == 2

\* ---------------------------------------------------------- constants
\* st.slider(min_value=1, max_value=5, value=...get(..., 3))
min_value == 1
max_value == 5
DefaultScore == 3

\* ------------------------------------------------------------ strings
ANECHOIC == "anechoic.wav"
GENERATED == "generated_reverb.wav"
GROUND_TRUTH == "ground_truth_reverb.wav"

U == <<"_">>
GeneratedStr == <<"g", "e", "n", "e", "r", "a", "t", "e", "d">>
GroundTruthStr == <<"g", "r", "o", "u", "n", "d", "_", "t", "r", "u", "t", "h">>
QualityPrefix == <<"q", "u", "a", "l", "i", "t", "y", "_">>
MatchPrefix == <<"m", "a", "t", "c", "h", "_">>

\* A python None.
None == "None"

\* ---------------------------------------------------------- utilities
\* A python dict: a function on its keys.
EmptyDict == [k \in {} |-> None]
Put(d, k, v) == [x \in DOMAIN d \cup {k} |-> IF x = k THEN v ELSE d[x]]
\* seq[i] of a python list: indices from 0, a negative one counts from the end.
At(seq, i) == IF i < 0 THEN seq[Len(seq) + i + 1] ELSE seq[i + 1]

\* ------------------------------------------------------------ corpora
\* A directory entry of a category: a sample directory with its files, or a
\* plain file (isdir = FALSE).
\* has_text: text_prompt.txt is in the directory, with the content text.
Group(name, files) ==
    [name |-> name, isdir |-> TRUE, files |-> files, has_text |-> FALSE, text |-> <<>>]
GroupWithText(name, files, text) ==
    [name |-> name, isdir |-> TRUE, files |-> files, has_text |-> TRUE, text |-> text]
PlainFile(name) ==
    [name |-> name, isdir |-> FALSE, files |-> {}, has_text |-> FALSE, text |-> <<>>]
Category(name, entries) == [name |-> name, isdir |-> TRUE, entries |-> entries]
TopFile(name) == [name |-> name, isdir |-> FALSE, entries |-> <<>>]
Root(entries) == [exists |-> TRUE, entries |-> entries]

Both == {ANECHOIC, GENERATED, GROUND_TRUTH}
GenOnly == {ANECHOIC, GENERATED}
TruthOnly == {ANECHOIC, GROUND_TRUTH}
NoDry == {GENERATED, GROUND_TRUTH}

\* The states of SAMPLES_DIR a session is started on (os.listdir order).
Corpora ==
    { [exists |-> FALSE, entries |-> <<>>],
      Root(<<>>),
      Root(<<TopFile(<<"r">>), Category(<<"s">>, <<PlainFile(<<"n">>), Group(<<"g", "_", "0">>, NoDry)>>)>>),
      Root(<<Category(<<"s">>, <<Group(<<"g", "_", "0">>, GenOnly)>>)>>),
      Root(<<Category(<<"s">>, <<Group(<<"g", "_", "0">>, Both)>>)>>),
      Root(<<Category(<<"s">>, <<Group(<<"g", "_", "0">>, Both), Group(<<"g", "_", "1">>, TruthOnly)>>)>>),
      Root(<<Category(<<"a">>, <<Group(<<"b", "_", "1">>, GenOnly)>>),
             Category(<<"a", "_", "b">>, <<Group(<<"1">>, GenOnly)>>)>>) }

\* Corpora whose sample directories have no text_prompt.txt, or have one,
\* under names with numeric, non-numeric, negative, empty and no suffix.
Bedroom == <<" ", "b", "e", "d", "\n">>
LoaderCorpora ==
    { Root(<<Category(<<"s", "m", "a", "l", "l">>, <<Group(<<"g", "_", "1">>, GenOnly)>>)>>),
      Root(<<Category(<<"s", "m", "a", "l", "l">>, <<Group(<<"g">>, Both)>>)>>),
      Root(<<Category(<<"s", "m", "a", "l", "l">>, <<Group(<<"g", "_", "7">>, TruthOnly)>>)>>),
      Root(<<Category(<<"s", "m", "a", "l", "l">>, <<Group(<<"g", "_", "-", "1">>, GenOnly)>>)>>),
      Root(<<Category(<<"s", "m", "a", "l", "l">>, <<Group(<<"g", "_", "-", "3">>, GenOnly)>>)>>),
      Root(<<Category(<<"s", "m", "a", "l", "l">>, <<Group(<<"g", "_", "x">>, GenOnly)>>)>>),
      Root(<<Category(<<"s", "m", "a", "l", "l">>,
                      <<GroupWithText(<<"g", "_", "x">>, Both, Bedroom)>>)>>),
      Root(<<Category(<<"h", "a", "l", "l">>, <<Group(<<"g", "_", "1">>, GenOnly)>>)>>),
      Root(<<Category(<<"h", "a", "l", "l">>, <<Group(<<"g", "_">>, GenOnly)>>)>>),
      Root(<<Category(<<"s">>, <<Group(<<"g", "_", "x">>, NoDry)>>)>>),
      Root(<<TopFile(<<"r">>), Category(<<"s">>, <<PlainFile(<<"n", "_", "x">>)>>)>>),
      [exists |-> FALSE, entries |-> <<>>] }

\* The corpora of the sessions whose storage may fail.
FaultCorpora ==
    { [exists |-> FALSE, entries |-> <<>>],
      Root(<<Category(<<"s">>, <<Group(<<"g", "_", "0">>, GenOnly)>>)>>),
      Root(<<Category(<<"s">>, <<Group(<<"g", "_", "0">>, Both)>>)>>) }

\* ------------------------------------------------------ text prompts
Small == <<"s", "m", "a", "l", "l">>
Medium == <<"m", "e", "d", "i", "u", "m">>
Large == <<"l", "a", "r", "g", "e">>
Outdoor == <<"o", "u", "t", "d", "o", "o", "r">>

\* Lines 126-143: the dict prompts; a phrase is one token.
prompts ==
    [c \in {Small, Medium, Large, Outdoor} |->
        CASE c = Small ->
               << <<"A small tiled bathroom with hard surfaces and minimal absorption">>,
                  <<"A compact bedroom with carpet flooring and soft furnishings">> >>
          [] c = Medium ->
               << <<"A medium-sized classroom with concrete walls and large windows">>,
                  <<"A living room with wooden floors and moderate furnishing">> >>
          [] c = Large ->
               << <<"A large cathedral with stone walls and high vaulted ceilings">>,
                  <<"A spacious concert hall with acoustic treatment panels">> >>
          [] c = Outdoor ->
               << <<"An open field with no nearby reflective surfaces">>,
                  <<"A desert landscape with distant rock formations">> >>]

Whitespace == {" ", "\n", "\t"}
\* str.strip()
RECURSIVE LStrip(_)
LStrip(s) == IF s # <<>> /\ Head(s) \in Whitespace THEN LStrip(Tail(s)) ELSE s
RECURSIVE RStrip(_)
RStrip(s) ==
    IF s # <<>> /\ s[Len(s)] \in Whitespace THEN RStrip(SubSeq(s, 1, Len(s) - 1)) ELSE s
Strip(s) == RStrip(LStrip(s))

\* '_' in s
HasUnderscore(s) == \E i \in 1..Len(s) : s[i] = "_"
\* s.split('_')[-1]: what follows the last underscore.
RECURSIVE LastPart(_)
LastPart(s) == IF HasUnderscore(s) THEN LastPart(Tail(s)) ELSE s

Digits == {"0", "1", "2", "3", "4", "5", "6", "7", "8", "9"}
DigitValue(c) ==
    CASE c = "0" -> 0 [] c = "1" -> 1 [] c = "2" -> 2 [] c = "3" -> 3 [] c = "4" -> 4
      [] c = "5" -> 5 [] c = "6" -> 6 [] c = "7" -> 7 [] c = "8" -> 8 [] c = "9" -> 9
AllDigits(s) == s # <<>> /\ \A i \in 1..Len(s) : s[i] \in Digits
RECURSIVE Decimal(_)
Decimal(s) == IF s = <<>> THEN 0 ELSE 10 * Decimal(SubSeq(s, 1, Len(s) - 1)) + DigitValue(s[Len(s)])
\* int(s) returns for an optional sign and decimal digits, blanks around them
\* ignored, and raises ValueError for anything else.
IntParses(s) ==
    LET t == Strip(s)
    IN  /\ t # <<>>
        /\ IF Head(t) \in {"-", "+"} THEN AllDigits(Tail(t)) ELSE AllDigits(t)
int(s) ==
    LET t == Strip(s)
    IN  IF Head(t) = "-" THEN 0 - Decimal(Tail(t))
        ELSE IF Head(t) = "+" THEN Decimal(Tail(t))
        ELSE Decimal(t)

\* Line 92: sample_num, and whether computing it raises.
SampleNumRaises(sample_dir) == HasUnderscore(sample_dir) /\ ~IntParses(LastPart(sample_dir))
sample_num(sample_dir) == IF HasUnderscore(sample_dir) THEN int(LastPart(sample_dir)) ELSE 0

\* Lines 124-153: get_demo_text_prompt; prompt_list[n] raises IndexError for
\* n < -len(prompt_list).
DemoPromptRaises(category, n) ==
    category \in DOMAIN prompts /\ n < 0 - Len(prompts[category])
get_demo_text_prompt(category, n) ==
    IF category \notin DOMAIN prompts THEN <<"A", " ">> \o category \o <<" ", "space">>
    ELSE IF n >= Len(prompts[category]) THEN At(prompts[category], 0)
    ELSE At(prompts[category], n)

\* Lines 86-93: the text prompt of a sample directory, and whether the lines raise.
TextPromptRaises(category, g) ==
    /\ ~g.has_text
    /\ \/ SampleNumRaises(g.name)
       \/ DemoPromptRaises(category, sample_num(g.name))
TextPrompt(category, g) ==
    IF g.has_text THEN Strip(g.text)
    ELSE get_demo_text_prompt(category, sample_num(g.name))

\* ------------------------------------------------------------- loader
\* os.path.join(SAMPLES_DIR, category, sample_dir, file)
Path(category, sample_dir, file) == <<category, sample_dir, file>>

Sample(category, g, condition, suffix, file) ==
    [id |-> category \o U \o g.name \o U \o suffix,
     category |-> category,
     condition |-> condition,
     sample_dir |-> g.name,
     text_prompt |-> TextPrompt(category, g),
     anechoic_path |-> Path(category, g.name, ANECHOIC),
     reverb_path |-> Path(category, g.name, file)]

\* Lines 95-117: the samples one sample directory adds.
GroupSamples(category, g) ==
    (IF ANECHOIC \in g.files /\ GENERATED \in g.files
       THEN <<Sample(category, g, "generated", GeneratedStr, GENERATED)>>
       ELSE <<>>)
    \o
    (IF ANECHOIC \in g.files /\ GROUND_TRUTH \in g.files
       THEN <<Sample(category, g, "ground_truth", GroundTruthStr, GROUND_TRUTH)>>
       ELSE <<>>)

\* Lines 75-78: the loop over the entries of one category directory.
RECURSIVE CategorySamples(_, _)
CategorySamples(category, entries) ==
    IF entries = <<>> THEN <<>>
    ELSE (IF Head(entries).isdir THEN GroupSamples(category, Head(entries)) ELSE <<>>)
         \o CategorySamples(category, Tail(entries))

\* Lines 70-73: the loop over the entries of SAMPLES_DIR.
RECURSIVE RootSamples(_)
RootSamples(entries) ==
    IF entries = <<>> THEN <<>>
    ELSE (IF Head(entries).isdir
            THEN CategorySamples(Head(entries).name, Head(entries).entries)
            ELSE <<>>)
         \o RootSamples(Tail(entries))

load_evaluation_samples(fs) ==
    IF ~fs.exists THEN <<>> ELSE RootSamples(fs.entries)

\* load_evaluation_samples raises: the text prompt of some sample directory
\* of some category directory does (lines 86-93).
LoadRaises(fs) ==
    /\ fs.exists
    /\ \E i \in 1..Len(fs.entries) :
          /\ fs.entries[i].isdir
          /\ \E j \in 1..Len(fs.entries[i].entries) :
                /\ fs.entries[i].entries[j].isdir
                /\ TextPromptRaises(fs.entries[i].name, fs.entries[i].entries[j])

\* A message on the page: its kind and, for the reference of a saved record,
\* the stem of the record name (-1 otherwise).
Msg(kind, ref) == [kind |-> kind, ref |-> ref]

\* The st.error / st.warning of load_evaluation_samples.
LoaderMessages(fs) ==
    IF ~fs.exists THEN <<Msg("error", -1)>>
    ELSE IF RootSamples(fs.entries) = <<>> THEN <<Msg("warning", -1)>>
    ELSE <<>>

\* --------------------------------------------------------------- state
VARIABLES
    fs,                  \* SAMPLES_DIR as it is on disk
    samples,             \* st.session_state.samples: None or the catalog
    sample_order,        \* st.session_state.sample_order
    current_sample_idx,  \* st.session_state.current_sample_idx
    ratings,             \* st.session_state.ratings: id -> rating
    widget_state,        \* st.session_state[quality_key / match_key] of the sliders on the page
    page,                \* what the last script run rendered
    messages,            \* the st.error/warning/success/info of the last script run
    files,               \* RESULTS_DIR: record name -> record
    clock,               \* the last reading of datetime.now(), in ticks
    storage,             \* RESULTS_DIR: "ok", "unavailable" (open fails) or
                         \* "full" (a write after open fails)
    moves,               \* slider adjustments made so far
    last                 \* the event handled last, the cursor it started from and,
                         \* for a slider, the value the rater asked for

vars == <<fs, samples, sample_order, current_sample_idx, ratings, widget_state,
          page, messages, files, clock, storage, moves, last>>

Event(name, idx, v) == [event |-> name, cursor |-> idx, input |-> v]

\* ----------------------------------------------------------- sequencer
\* Mutant: n draws with replacement.
RandomChoices(n) == [1..n -> 0..(n - 1)]
\* random.sample(range(n), n): n draws without replacement.
RandomSample(n) ==
    {s \in [1..n -> 0..(n - 1)] : \A i, j \in 1..n : s[i] = s[j] => i = j}

\* ------------------------------------------------------------- widgets
quality_key(sample) == QualityPrefix \o sample.id
match_key(sample) == MatchPrefix \o sample.id

\* Mutant: a slider without bounds.
SliderUnbounded(v) == v
\* The value a slider takes when the rater drags it to v: the widget keeps it
\* within [min_value, max_value].
SliderInput(v) ==
    IF v < min_value THEN min_value ELSE IF v > max_value THEN max_value ELSE v

\* st.slider(value=default, key=key): a widget that was on the last page keeps
\* its state, a new one starts at value.
Slider(ws, key, default) == IF key \in DOMAIN ws THEN ws[key] ELSE default

\* Mutant: the quality slider always starts at the default.
ExistingQualityIgnored(rts, sample) == DefaultScore
\* existing_rating.get(field, 3) with existing_rating = ratings.get(id, {})
ExistingQuality(rts, sample) ==
    IF sample.id \in DOMAIN rts THEN rts[sample.id].quality ELSE DefaultScore
ExistingMatch(rts, sample) ==
    IF sample.id \in DOMAIN rts THEN rts[sample.id].match ELSE DefaultScore

\* Lines 207-231: the state of the two sliders after the page of `sample` is
\* rendered; the widgets of the page before that are not on it are dropped.
RenderedSliders(ws, rts, sample) ==
    Put(Put(EmptyDict,
            quality_key(sample), Slider(ws, quality_key(sample), ExistingQuality(rts, sample))),
        match_key(sample), Slider(ws, match_key(sample), ExistingMatch(rts, sample)))

\* ------------------------------------------------------------ handlers
\* Mutant: every write adds an entry of its own instead of replacing the
\* sample's entry.
SaveRatingAppend(rts, sample, ws, idx) ==
    Put(rts, sample.id \o U \o <<ToString(ws[QualityPrefix \o sample.id])>>,
        [sample_id |-> sample.id,
         category |-> sample.category,
         condition |-> sample.condition,
         quality |-> ws[QualityPrefix \o sample.id],
         match |-> ws[MatchPrefix \o sample.id],
         order_presented |-> idx])

\* Mutant: the position is read after the cursor has moved on.
SaveRatingLate(rts, sample, ws, idx) ==
    Put(rts, sample.id,
        [sample_id |-> sample.id,
         category |-> sample.category,
         condition |-> sample.condition,
         quality |-> ws[QualityPrefix \o sample.id],
         match |-> ws[MatchPrefix \o sample.id],
         order_presented |-> idx + 1])

\* Lines 246-253, 264-271, 286-293: the rating written when a button is pressed.
SaveRating(rts, sample, ws, idx) ==
    Put(rts, sample.id,
        [sample_id |-> sample.id,
         category |-> sample.category,
         condition |-> sample.condition,
         quality |-> ws[quality_key(sample)],
         match |-> ws[match_key(sample)],
         order_presented |-> idx])

\* Line 161.
IsComplete(idx, order) == idx >= Len(order)
\* Mutant: the Previous button is on the first page too.
HasPreviousAlways(idx) == idx >= 0
\* Line 238: the Previous button is on the page.
HasPrevious(idx) == idx > 0
\* Line 254.
Retreat(idx) == idx - 1
\* Mutant: the cursor skips a sample.
AdvanceTwo(idx) == idx + 2
\* Lines 274 and 296.
Advance(idx) == idx + 1
\* Mutant: the samples and the order are set up on every script run.
NeedsInitAlways(s) == TRUE
\* Line 330.
NeedsInit(s) == s = None

\* Line 166.
CurrentSample(smp, order, idx) == At(smp, At(order, idx))

\* strftime('%Y%m%d_%H%M%S'): the clock reading cut to whole seconds.
strftime(t) == t \div TicksPerSecond

\* Mutant: the reference is shown before the record is written.
show_completion_reference_first(pre, rts) ==
    \E t1 \in clock..MaxClock : \E t2 \in t1..MaxClock :
        LET results == [ratings |-> rts, completion_time |-> t1]
            filename == strftime(t2)
        IN  /\ clock' = t2
            /\ page' = "completion"
            /\ widget_state' = EmptyDict
            /\ IF storage = "ok"
                 THEN /\ files' = Put(files, filename, [results |-> results, whole |-> TRUE])
                      /\ messages' = pre \o <<Msg("success", -1), Msg("info", filename)>>
                 ELSE /\ files' = IF storage = "full"
                                    THEN Put(files, filename, [results |-> results, whole |-> FALSE])
                                    ELSE files
                      /\ messages' = pre \o <<Msg("success", -1), Msg("info", filename),
                                               Msg("exception", -1)>>

\* Lines 299-315: show_completion.  The two datetime.now() calls read the clock
\* one after the other.
\* A file of RESULTS_DIR holds the record dumped into it; whole = FALSE: the
\* dump stopped part way and the file holds only a prefix of the serialised
\* record.
\* open(filename, 'w') raises when the storage is unavailable, and the page
\* ends with the exception; json.dump raises when the storage is full, after
\* open has created or truncated the file.
show_completion(pre, rts) ==
    \E t1 \in clock..MaxClock : \E t2 \in t1..MaxClock :
        LET results == [ratings |-> rts, completion_time |-> t1]
            filename == strftime(t2)
        IN  /\ clock' = t2
            /\ page' = "completion"
            /\ widget_state' = EmptyDict
            /\ IF storage = "ok"
                 THEN /\ files' = Put(files, filename, [results |-> results, whole |-> TRUE])
                      /\ messages' = pre \o <<Msg("success", -1), Msg("info", filename)>>
                 ELSE /\ files' = IF storage = "full"
                                    THEN Put(files, filename, [results |-> results, whole |-> FALSE])
                                    ELSE files
                      /\ messages' = pre \o <<Msg("success", -1), Msg("exception", -1)>>

\* Lines 166-231: the page of the sample at idx.
ShowSample(pre, smp, order, idx, rts) ==
    /\ widget_state' = RenderedSliders(widget_state, rts, CurrentSample(smp, order, idx))
    /\ messages' = pre
    /\ page' = "evaluation"
    /\ UNCHANGED <<files, clock>>

\* Lines 157-166: evaluation_interface up to the page it renders.
evaluation_interface(pre, smp, order, idx, rts) ==
    IF IsComplete(idx, order)
      THEN show_completion(pre, rts)
      ELSE ShowSample(pre, smp, order, idx, rts)

\* The first script run of a session: main loads the samples and draws the order.
\* When load_evaluation_samples raises, the run ends there with the exception
\* on the page and the session state as it was.
FirstRun ==
    /\ NeedsInit(samples)
    /\ IF LoadRaises(fs)
         THEN /\ page' = "exception"
              /\ messages' = <<Msg("exception", -1)>>
              /\ widget_state' = EmptyDict
              /\ UNCHANGED <<samples, sample_order, files, clock>>
         ELSE \E order \in RandomSample(Len(load_evaluation_samples(fs))) :
                  /\ samples' = load_evaluation_samples(fs)
                  /\ sample_order' = order
                  /\ evaluation_interface(LoaderMessages(fs), samples', order,
                                          current_sample_idx, ratings)
    /\ last' = Event("first", current_sample_idx, 0)
    /\ UNCHANGED <<fs, current_sample_idx, ratings, moves, storage>>

\* A script run with no widget event (the rater reruns the page).
Rerun ==
    /\ ~NeedsInit(samples)
    /\ evaluation_interface(<<>>, samples, sample_order, current_sample_idx, ratings)
    /\ last' = Event("rerun", current_sample_idx, 0)
    /\ UNCHANGED <<fs, samples, sample_order, current_sample_idx, ratings, moves,
                   storage>>

\* The rater drags a slider of the page to v; the script reruns.
MoveSlider(key, v) ==
    /\ page = "evaluation"
    /\ moves < MaxMoves
    /\ key \in DOMAIN widget_state
    /\ SliderInput(v) # widget_state[key]
    /\ widget_state' = [widget_state EXCEPT ![key] = SliderInput(v)]
    /\ moves' = moves + 1
    /\ last' = Event("move", current_sample_idx, v)
    /\ UNCHANGED <<fs, samples, sample_order, current_sample_idx, ratings,
                   page, messages, files, clock, storage>>

\* Lines 244-255: the Previous button.
ClickPrevious ==
    /\ page = "evaluation"
    /\ HasPrevious(current_sample_idx)
    /\ ratings' = SaveRating(ratings, CurrentSample(samples, sample_order, current_sample_idx),
                             widget_state, current_sample_idx)
    /\ current_sample_idx' = Retreat(current_sample_idx)
    /\ evaluation_interface(<<>>, samples, sample_order, current_sample_idx', ratings')
    /\ last' = Event("previous", current_sample_idx, 0)
    /\ UNCHANGED <<fs, samples, sample_order, moves, storage>>

\* Lines 262-275 and 284-297: the Next / Submit button.
ClickNext ==
    /\ page = "evaluation"
    /\ ratings' = SaveRating(ratings, CurrentSample(samples, sample_order, current_sample_idx),
                             widget_state, current_sample_idx)
    /\ current_sample_idx' = Advance(current_sample_idx)
    /\ evaluation_interface(<<>>, samples, sample_order, current_sample_idx', ratings')
    /\ last' = Event("next", current_sample_idx, 0)
    /\ UNCHANGED <<fs, samples, sample_order, moves, storage>>

\* Lines 9-16: the session state of a new session, on one of the corpora C.
InitOn(C) ==
    /\ fs \in C
    /\ samples = None
    /\ sample_order = <<>>
    /\ current_sample_idx = 0
    /\ ratings = EmptyDict
    /\ widget_state = EmptyDict
    /\ page = "none"
    /\ messages = <<>>
    /\ files = EmptyDict
    /\ clock = 0
    /\ storage = "ok"
    /\ moves = 0
    /\ last = Event("init", 0, 0)

Next ==
    \/ FirstRun
    \/ Rerun
    \/ \E key \in DOMAIN widget_state : \E v \in (min_value - 1)..(max_value + 1) :
          MoveSlider(key, v)
    \/ ClickPrevious
    \/ ClickNext

Init == InitOn(Corpora)
Spec == Init /\ [][Next]_vars

\* The sessions on the corpora of the text prompts.
InitLoader == InitOn(LoaderCorpora)
SpecLoader == InitLoader /\ [][Next]_vars

\* RESULTS_DIR becomes unavailable, full or usable again.
StorageChanges ==
    /\ \E s \in {"ok", "unavailable", "full"} : s # storage /\ storage' = s
    /\ UNCHANGED <<fs, samples, sample_order, current_sample_idx, ratings, widget_state,
                   page, messages, files, clock, moves, last>>
\* The sessions whose storage may fail.
InitFaults == InitOn(FaultCorpora)
NextFaults == Next \/ StorageChanges
SpecFaults == InitFaults /\ [][NextFaults]_vars

\* =============================================================== claims
Catalog == IF samples = None THEN <<>> ELSE samples
\* The sample on the page.
Shown == CurrentSample(samples, sample_order, current_sample_idx)
\* The rating a button press writes for the sample on the page.
ShownRating ==
    [sample_id |-> Shown.id,
     category |-> Shown.category,
     condition |-> Shown.condition,
     quality |-> widget_state[quality_key(Shown)],
     match |-> widget_state[match_key(Shown)],
     order_presented |-> current_sample_idx]
Navigation == {"next", "previous"}

\* C1: ratings holds at most one Rating per sampleId (every entry is stored
\* under its own sample_id), never more entries than the catalog has Samples,
\* and a write for a Sample replaces that Sample's entry by the scores on the
\* page: the keys after the write are the keys before it plus that id.
C1_State ==
    /\ \A k \in DOMAIN ratings : ratings[k].sample_id = k
    /\ \A k1, k2 \in DOMAIN ratings :
          ratings[k1].sample_id = ratings[k2].sample_id => k1 = k2
    /\ Cardinality(DOMAIN ratings) <= Len(Catalog)
C1_Write ==
    last'.event \in Navigation =>
        /\ DOMAIN ratings' = DOMAIN ratings \cup {Shown.id}
        /\ ratings'[Shown.id].quality = widget_state[quality_key(Shown)]
        /\ ratings'[Shown.id].match = widget_state[match_key(Shown)]
C1_OneRatingPerSample == []C1_State /\ [][C1_Write]_vars
\* The first Sample was rated, left, shown again and rated anew with another
\* quality score than the default.
C1_Witness ==
    /\ last.event = "next" /\ last.cursor = 0
    /\ Len(Catalog) = 3
    /\ \E k \in DOMAIN ratings : ratings[k].order_presented = 1
    /\ ratings[At(samples, At(sample_order, 0)).id].quality # DefaultScore
    /\ Cardinality(DOMAIN ratings) = 2

\* C2: the Next/Submit button pressed at cursor c stores, under the id of the
\* Sample shown, the Rating with the two slider values, the Sample's category
\* and condition and order_presented = c, moves the cursor to c + 1, and the
\* completion page is shown exactly when c + 1 = len(sample_order).
C2_Step ==
    last'.event = "next" =>
        /\ last'.cursor = current_sample_idx
        /\ current_sample_idx < Len(sample_order)
        /\ Shown.id \in DOMAIN ratings'
        /\ ratings'[Shown.id] = ShownRating
        /\ current_sample_idx' = current_sample_idx + 1
        /\ (page' = "completion") <=> (current_sample_idx + 1 = Len(sample_order))
C2_Advance == [][C2_Step]_vars
\* Submit on the last of three Samples, with a slider moved.
C2_Witness ==
    /\ last.event = "next" /\ last.cursor = 2
    /\ page = "completion"
    /\ moves > 0

\* C3: the Previous button can be pressed only when 0 < cursor < len; pressed
\* at cursor c it writes the Rating of the Sample shown with
\* order_presented = c and moves the cursor to c - 1; the cursor is never
\* negative.
C3_Step ==
    last'.event = "previous" =>
        /\ 0 < current_sample_idx /\ current_sample_idx < Len(sample_order)
        /\ Shown.id \in DOMAIN ratings'
        /\ ratings'[Shown.id] = ShownRating
        /\ current_sample_idx' = current_sample_idx - 1
C3_State ==
    /\ current_sample_idx >= 0
    /\ (ENABLED ClickPrevious) <=>
          (samples # None /\ 0 < current_sample_idx
             /\ current_sample_idx < Len(sample_order))
C3_Retreat == []C3_State /\ [][C3_Step]_vars
\* Previous pressed on the second page with a slider moved there.
C3_Witness ==
    /\ last.event = "previous" /\ last.cursor = 1
    /\ current_sample_idx = 0
    /\ \E k \in DOMAIN ratings :
          ratings[k].order_presented = 1 /\ ratings[k].match # DefaultScore

\* The scores stored in a ratings mapping, without order_presented.
Content(rts) == [k \in DOMAIN rts |-> <<rts[k].quality, rts[k].match>>]
\* Previous pressed right after Next, the sliders of the page in between untouched.
NextThenPrevious == last.event = "next" /\ last'.event = "previous"

\* C4 (as stated): Next and then at once Previous brings the cursor back and
\* the Previous leaves the scores stored in ratings as they were before it.
C4_Original ==
    [][NextThenPrevious =>
          /\ current_sample_idx' = last.cursor
          /\ Content(ratings') = Content(ratings)]_vars
\* C4 (amended): Next and then at once Previous brings the cursor back; the
\* Previous leaves the stored scores as they were when the Sample in between
\* already had a Rating, and otherwise adds a Rating with the default scores
\* 3 and 3 for it, every other entry unchanged.
C4_AdvanceRetreat ==
    [][NextThenPrevious =>
          /\ current_sample_idx' = last.cursor
          /\ Content(ratings') =
                IF Shown.id \in DOMAIN ratings
                  THEN Content(ratings)
                  ELSE Put(Content(ratings), Shown.id, <<DefaultScore, DefaultScore>>)]_vars
\* Next on the first of three Samples and then Previous: the first two Samples
\* have Ratings, the second the default scores, recorded at position 1.
C4_Witness ==
    /\ last.event = "previous" /\ last.cursor = 1
    /\ Len(Catalog) = 3
    /\ moves = 0
    /\ DOMAIN ratings = {At(samples, At(sample_order, 0)).id,
                         At(samples, At(sample_order, 1)).id}
    /\ Cardinality(DOMAIN ratings) = 2

\* C5: the catalog and the order are set by the first script run and by no
\* other step: before it samples is None, and once set neither changes, on any
\* button, rerun or completion and for any catalog size.
C5_State == (samples = None) <=> (page = "none")
C5_Step ==
    /\ samples # None => samples' = samples /\ sample_order' = sample_order
    /\ samples' # samples => last'.event = "first"
    /\ sample_order' # sample_order => last'.event = "first"
C5_OrderFixed == []C5_State /\ [][C5_Step]_vars
\* The completion page of a session of three Samples has been run again.
C5_Witness ==
    /\ last.event = "rerun"
    /\ page = "completion"
    /\ Len(Catalog) = 3
    /\ Cardinality(DOMAIN files) = 2

\* C6: once drawn, the order has as many elements as the catalog and every
\* index of [0, N) is in it exactly once.
C6_Permutation ==
    samples # None =>
        /\ Len(sample_order) = Len(samples)
        /\ \A i \in 0..(Len(samples) - 1) :
              Cardinality({p \in 1..Len(sample_order) : sample_order[p] = i}) = 1
        /\ \A p \in 1..Len(sample_order) :
              sample_order[p] \in 0..(Len(samples) - 1)
\* An order of three Samples that is not the order of discovery.
C6_Witness ==
    /\ samples # None
    /\ Len(samples) = 3
    /\ sample_order = <<2, 0, 1>>

\* C7: 0 <= cursor <= len(order); the evaluation page is shown exactly when
\* cursor < len(order) and the completion page exactly when cursor =
\* len(order); on the completion page neither button can be pressed, and the
\* cursor and the ratings never change again.
C7_State ==
    /\ 0 <= current_sample_idx /\ current_sample_idx <= Len(sample_order)
    /\ samples # None =>
          /\ (page = "evaluation") <=> (current_sample_idx < Len(sample_order))
          /\ (page = "completion") <=> (current_sample_idx = Len(sample_order))
    /\ page = "completion" => ~ENABLED ClickNext /\ ~ENABLED ClickPrevious
C7_Step ==
    page = "completion" =>
        /\ page' = "completion"
        /\ current_sample_idx' = current_sample_idx
        /\ ratings' = ratings
C7_Terminal == []C7_State /\ [][C7_Step]_vars
\* The completion page of a rated session has been run again.
C7_Witness ==
    /\ page = "completion"
    /\ last.event = "rerun"
    /\ Len(Catalog) = 2
    /\ ratings # EmptyDict

\* The records in RESULTS_DIR.
Records == {files[f].results : f \in {g \in DOMAIN files : files[g].whole}}

\* C8 (as stated): a record written at completion holds exactly one entry per
\* Sample of the catalog.
C8_Original ==
    \A r \in Records :
        /\ Cardinality(DOMAIN r.ratings) = Len(Catalog)
        /\ \A i \in 1..Len(Catalog) : Catalog[i].id \in DOMAIN r.ratings

\* C9 (as stated): a session that has not reached the completion page has
\* written no record, and one that has reached it has written exactly one,
\* however often the completion page is run.
C9_Original ==
    /\ page # "completion" => files = EmptyDict
    /\ page = "completion" => Cardinality(DOMAIN files) = 1

\* A slider was asked for a value outside [min_value, max_value].
OutOfRange(v) == v < min_value \/ v > max_value
C10_State ==
    /\ \A k \in DOMAIN ratings :
          /\ ratings[k].quality \in min_value..max_value
          /\ ratings[k].match \in min_value..max_value
    /\ \A k \in DOMAIN widget_state : widget_state[k] \in min_value..max_value
C10_Step ==
    (last'.event = "move" /\ OutOfRange(last'.input)) =>
        /\ \E k \in DOMAIN widget_state :
              /\ widget_state' = [widget_state EXCEPT
                    ![k] = IF last'.input < min_value THEN min_value ELSE max_value]
              /\ widget_state' # widget_state
        /\ current_sample_idx' = current_sample_idx
        /\ ratings' = ratings
        /\ messages' = messages
GroupsOf(f) ==
    IF ~f.exists THEN {}
    ELSE UNION {{<<f.entries[i].name, f.entries[i].entries[j]>> :
                    j \in {b \in 1..Len(f.entries[i].entries) : f.entries[i].entries[b].isdir}} :
                i \in {a \in 1..Len(f.entries) : f.entries[a].isdir}}
Variants == {<<"generated", GENERATED>>, <<"ground_truth", GROUND_TRUTH>>}
\* The <<category, directory name, condition>> whose dry and variant files exist.
ValidSamples(f) ==
    UNION {{<<cg[1], cg[2].name, v[1]>> :
               v \in {w \in Variants : ANECHOIC \in cg[2].files /\ w[2] \in cg[2].files}} :
           cg \in GroupsOf(f)}
Emitted == {<<Catalog[i].category, Catalog[i].sample_dir, Catalog[i].condition>> :
               i \in 1..Len(Catalog)}
FirstRunDone == page # "none"

\* C11 (as stated): on a corpus with a missing root or without a valid group
\* the first run does not fail: the order is empty, the completion page is
\* shown at once, ratings is empty and a record with empty ratings is written.
C11_Original ==
    (FirstRunDone /\ ValidSamples(fs) = {}) =>
        /\ samples # None /\ Len(samples) = 0
        /\ Len(sample_order) = 0
        /\ page = "completion"
        /\ ratings = EmptyDict
        /\ \E r \in Records : r.ratings = EmptyDict

\* A path names a file of the corpus.
Exists(f, path) ==
    \E cg \in GroupsOf(f) : cg[1] = path[1] /\ cg[2].name = path[2] /\ path[3] \in cg[2].files

\* C15 (as stated): the loader emits a Sample for a sample directory and a
\* variant exactly when the directory's dry file and the variant's file exist,
\* at most two per directory, every emitted Sample with both files; entries
\* that are no directories are skipped.
C15_Original ==
    FirstRunDone =>
        /\ Emitted = ValidSamples(fs)
        /\ Len(Catalog) = Cardinality(ValidSamples(fs))
        /\ \A i \in 1..Len(Catalog) :
              Exists(fs, Catalog[i].anechoic_path) /\ Exists(fs, Catalog[i].reverb_path)

\* The position and the prompt the claim gives a sample directory without
\* text_prompt.txt.
ClaimedPosition(name) ==
    IF HasUnderscore(name) /\ AllDigits(LastPart(name)) THEN Decimal(LastPart(name)) ELSE 0
ClaimedPrompt(category, name) ==
    IF category \notin DOMAIN prompts THEN <<"A", " ">> \o category \o <<" ", "space">>
    ELSE IF ClaimedPosition(name) + 1 \in DOMAIN prompts[category]
           THEN prompts[category][ClaimedPosition(name) + 1]
           ELSE prompts[category][1]
\* C16 (as stated): the first run never ends in an exception, and every Sample
\* of a directory without text_prompt.txt has the prompt of its category and
\* of the position in its name, 0 when the suffix is absent or no number.
C16_Original ==
    FirstRunDone =>
        /\ page # "exception"
        /\ \A cg \in GroupsOf(fs) : \A i \in 1..Len(Catalog) :
              (~cg[2].has_text /\ Catalog[i].category = cg[1]
                 /\ Catalog[i].sample_dir = cg[2].name)
              => Catalog[i].text_prompt = ClaimedPrompt(cg[1], cg[2].name)

\* C18 (as stated): two Samples of the catalog that differ in category,
\* directory or condition have different ids.
C18_Original ==
    \A i, j \in 1..Len(Catalog) :
        (\/ Catalog[i].category # Catalog[j].category
         \/ Catalog[i].sample_dir # Catalog[j].sample_dir
         \/ Catalog[i].condition # Catalog[j].condition)
        => Catalog[i].id # Catalog[j].id

\* C12 (as stated): every file under a record name of RESULTS_DIR holds a
\* complete record at every moment, also when the write stops part way.
C12_Original == \A f \in DOMAIN files : files[f].whole

\* The messages of a kind on the page.
Shows(msgs, kind) == \E i \in 1..Len(msgs) : msgs[i].kind = kind
\* A script run has rendered the completion page.
CompletionRun == storage' = storage /\ page' = "completion" /\ last'.event # "move"
\* C13: a script run that renders the completion page while the write fails
\* leaves the cursor at len(sample_order) and the ratings as the button press
\* wrote them (unchanged on a rerun), adds no complete record, shows the
\* exception and not the reference; while the write succeeds it shows the
\* reference and no exception.  The completion page always shows exactly one
\* of the two, and the session stays on it with cursor and ratings unchanged.
C13_Step ==
    /\ CompletionRun =>
          /\ current_sample_idx' = Len(sample_order')
          /\ ratings' = IF last'.event = "next" THEN Put(ratings, Shown.id, ShownRating)
                                                ELSE ratings
          /\ storage # "ok" =>
                /\ ~Shows(messages', "info")
                /\ Shows(messages', "exception")
                /\ \A f \in DOMAIN files' :
                      files'[f].whole => f \in DOMAIN files /\ files'[f] = files[f]
          /\ storage = "ok" =>
                /\ Shows(messages', "info")
                /\ ~Shows(messages', "exception")
    /\ page = "completion" =>
          /\ page' = "completion"
          /\ current_sample_idx' = current_sample_idx
          /\ ratings' = ratings
C13_State ==
    page = "completion" =>
        /\ current_sample_idx = Len(sample_order)
        /\ Shows(messages, "info") <=> ~Shows(messages, "exception")
C13_WriteFails == []C13_State /\ [][C13_Step]_vars
\* Submit on the last Sample while the storage is unavailable: the exception
\* is on the completion page, the Rating is in memory and nothing is on disk.
C13_Witness ==
    /\ page = "completion" /\ last.event = "next"
    /\ storage = "unavailable"
    /\ Shows(messages, "exception")
    /\ ratings # EmptyDict
    /\ files = EmptyDict

\* C14 (as stated): a completion writes under a name no earlier completion
\* wrote under: the records already in RESULTS_DIR stay as they are.
C14_Original ==
    [][\A f \in DOMAIN files : f \in DOMAIN files' /\ files'[f] = files[f]]_vars

\* The Ratings stored for the Sample presented at position p.
RatingsAt(rts, p) == {rts[k] : k \in {j \in DOMAIN rts : rts[j].order_presented = p}}
\* A script run has put a Sample on the page that was not on it before.
Displayed == last'.event \in {"first", "next", "previous"} /\ page' = "evaluation"
\* The two sliders of the page after the step stand at q and m.
SlidersAt(q, m) ==
    LET s == CurrentSample(samples', sample_order', current_sample_idx')
    IN  /\ widget_state'[quality_key(s)] = q
        /\ widget_state'[match_key(s)] = m
\* C17 (as stated): a Sample put on the page has its sliders at the scores of
\* the Rating stored for it, and at 3 and 3 when it has none; a button pressed
\* on an already rated Sample whose sliders were not moved leaves every stored
\* score as it was.
C17_Original ==
    /\ [][Displayed =>
             IF RatingsAt(ratings', current_sample_idx') = {}
               THEN SlidersAt(DefaultScore, DefaultScore)
               ELSE \E r \in RatingsAt(ratings', current_sample_idx') :
                       SlidersAt(r.quality, r.match)]_vars
    /\ [][(/\ last.event \in {"first", "next", "previous"}
           /\ last'.event \in Navigation
           /\ RatingsAt(ratings, current_sample_idx) # {})
          => Content(ratings') = Content(ratings)]_vars

\* C19 (as stated): Next moves the cursor up by one and Previous down by one;
\* either leaves the Ratings of the Samples at all other positions, the order
\* and the catalog as they were and removes no entry; a rerun or a slider
\* move changes none of cursor, order and ratings.
C19_Original ==
    [][/\ last'.event = "next" => current_sample_idx' = current_sample_idx + 1
       /\ last'.event = "previous" => current_sample_idx' = current_sample_idx - 1
       /\ last'.event \in Navigation =>
             /\ \A p \in 0..(Len(sample_order) - 1) :
                   p # current_sample_idx => RatingsAt(ratings', p) = RatingsAt(ratings, p)
             /\ DOMAIN ratings \subseteq DOMAIN ratings'
             /\ sample_order' = sample_order
             /\ samples' = samples
       /\ last'.event \in {"rerun", "move"} =>
             /\ current_sample_idx' = current_sample_idx
             /\ sample_order' = sample_order
             /\ ratings' = ratings]_vars

\* C20: every stored Rating r has 0 <= r.order_presented < len(sample_order),
\* the Sample at that position of the order has the id, the category and the
\* condition of r, and r is stored under its sample_id.
C20_Consistent ==
    \A k \in DOMAIN ratings :
        /\ 0 <= ratings[k].order_presented
        /\ ratings[k].order_presented < Len(sample_order)
        /\ LET s == CurrentSample(samples, sample_order, ratings[k].order_presented)
           IN  /\ s.id = ratings[k].sample_id
               /\ s.category = ratings[k].category
               /\ s.condition = ratings[k].condition
        /\ k = ratings[k].sample_id
\* Two Samples of three are rated, presented in another order than loaded,
\* the second after the rater came back to it.
C20_Witness ==
    /\ Len(Catalog) = 3
    /\ sample_order # <<0, 1, 2>>
    /\ last.event = "next" /\ last.cursor = 1
    /\ {ratings[k].order_presented : k \in DOMAIN ratings} = {0, 1}
    /\ \E k \in DOMAIN ratings : ratings[k].quality # DefaultScore

====
